---- MODULE Spec2Model ----
(***************************************************************************)
(* A model of the Thales HSM simulator (TypeScript port of pythales):      *)
(* the frame codec, the per-command payload grammar, the command handlers  *)
(* and the per-connection data handler.                                    *)
(*                                                                         *)
(* Buffers are sequences of byte values 0..255; ASCII text is the sequence *)
(* of its character codes.  The cipher of Node's crypto module             *)
(* (des-ede3-ecb, no padding) is outside the repository: it is modelled by *)
(* a keyed byte-wise permutation with the encrypt-decrypt-encrypt key      *)
(* structure, the 8-byte block-alignment requirement and the documented    *)
(* key lengths (16 or 24 bytes).                                           *)
(***************************************************************************)
EXTENDS Integers, Sequences, FiniteSets, TLC

(* ------------------------------------------------------------------ *)
(* Characters and buffers                                               *)
(* ------------------------------------------------------------------ *)

\* ASCII codes of the characters the protocol uses.
Chr ==
  [c \in {"0","1","2","3","4","5","6","7","8","9"} |->
     CASE c = "0" -> 48 [] c = "1" -> 49 [] c = "2" -> 50 [] c = "3" -> 51
       [] c = "4" -> 52 [] c = "5" -> 53 [] c = "6" -> 54 [] c = "7" -> 55
       [] c = "8" -> 56 [] c = "9" -> 57]
  @@ [c \in {"A","B","C","D","E","F","H","K","N","S","T","U","V","W","X","Y","Z"} |->
     CASE c = "A" -> 65 [] c = "B" -> 66 [] c = "C" -> 67 [] c = "D" -> 68
       [] c = "E" -> 69 [] c = "F" -> 70 [] c = "H" -> 72 [] c = "K" -> 75
       [] c = "N" -> 78 [] c = "S" -> 83 [] c = "T" -> 84 [] c = "U" -> 85
       [] c = "V" -> 86 [] c = "W" -> 87 [] c = "X" -> 88 [] c = "Y" -> 89
       [] c = "Z" -> 90]
  @@ [c \in {";", "-"} |-> IF c = ";" THEN 59 ELSE 45]

\* A two-character code as a buffer (Buffer.from('DD')).
Str2(a, b) == <<Chr[a], Chr[b]>>

Min(a, b) == IF a < b THEN a ELSE b

\* A function with domain 1..n as a sequence value (the same function).
AsSeq(f) == f \o <<>>

\* Buffer.subarray(start, end), 0-based, end exclusive, clamped to the buffer.
Sub(buf, start, end) ==
  SubSeq(buf, Min(start, Len(buf)) + 1, Min(end, Len(buf)))

\* buf[i], 0-based; -1 stands for undefined (index past the end).
At(buf, i) == IF i < Len(buf) THEN buf[i + 1] ELSE -1

\* Buffer.indexOf(value, from): 0-based index of the first occurrence at or
\* after from, -1 if there is none.
IndexOf(buf, value, from) ==
  LET hits == {i \in from..(Len(buf) - 1) : buf[i + 1] = value}
  IN IF hits = {} THEN -1 ELSE CHOOSE i \in hits : \A j \in hits : i <= j

\* Character code of the lowercase hex digit of a nibble.
HexDigit(n) == IF n < 10 THEN 48 + n ELSE 87 + n

\* Value of a hex digit character (either case), -1 if it is none.
HexVal(c) ==
  IF c >= 48 /\ c <= 57 THEN c - 48
  ELSE IF c >= 65 /\ c <= 70 THEN c - 55
  ELSE IF c >= 97 /\ c <= 102 THEN c - 87
  ELSE -1

\* buf.toString('hex'): two lowercase hex digits per byte.
ToHex(buf) ==
  AsSeq([i \in 1..(2 * Len(buf)) |->
           IF i % 2 = 1 THEN HexDigit(buf[(i + 1) \div 2] \div 16)
           ELSE HexDigit(buf[i \div 2] % 16)])

\* Buffer.from(text, 'hex'): decodes pairs of hex digits and stops at the
\* first pair that is not hex; a trailing single character is dropped.
FromHex(text) ==
  LET pairs == Len(text) \div 2
      bad == {i \in 1..pairs : HexVal(text[2 * i - 1]) < 0 \/ HexVal(text[2 * i]) < 0}
      n == IF bad = {} THEN pairs
           ELSE (CHOOSE i \in bad : \A j \in bad : i <= j) - 1
  IN AsSeq([i \in 1..n |-> 16 * HexVal(text[2 * i - 1]) + HexVal(text[2 * i])])

\* Buffer.from(x.toString('hex'), 'hex'), the conversion the handlers apply
\* to key and PIN-block fields before handing them to the cipher.
ReHex(buf) == FromHex(ToHex(buf))

(* ------------------------------------------------------------------ *)
(* Crypto primitives                                                    *)
(* ------------------------------------------------------------------ *)

\* Key lengths createCipheriv('des-ede3-ecb') is documented to accept.
KeyLenOK(key) == Len(key) \in {16, 24}

\* With setAutoPadding(false), final() fails unless the data is a whole
\* number of 8-byte blocks.
BlockOK(data) == Len(data) % 8 = 0

\* encrypt3DES / decrypt3DES throw for these arguments.
CipherThrows(key, data) == ~KeyLenOK(key) \/ ~BlockOK(data)

\* Per-position key stream of the E-D-E composition: K1 - K2 + K3, with
\* K3 = K1 for a 16-byte key.
EdeShift(key, j) ==
  LET k1 == key[j]
      k2 == key[8 + j]
      k3 == IF Len(key) = 24 THEN key[16 + j] ELSE key[j]
  IN (k1 - k2 + k3) % 256

encrypt3DES(key, data) ==
  AsSeq([i \in 1..Len(data) |-> (data[i] + EdeShift(key, ((i - 1) % 8) + 1)) % 256])

decrypt3DES(key, data) ==
  AsSeq([i \in 1..Len(data) |-> (data[i] - EdeShift(key, ((i - 1) % 8) + 1)) % 256])

\* XOR of the bits j..7 of a byte.
RECURSIVE BitXor(_, _)
BitXor(byte, j) ==
  IF j > 7 THEN 0 ELSE (((byte \div (2 ^ j)) % 2) + BitXor(byte, j + 1)) % 2

\* CryptoUtils.checkKeyParity: every byte has an odd number of set bits.
CryptoCheckKeyParity(key) == \A i \in 1..Len(key) : BitXor(key[i], 0) = 1

\* CryptoUtils.modifyKeyParity: bit 0 := XOR of bits 1..7.
modifyKeyParity(key) ==
  AsSeq([i \in 1..Len(key) |-> (key[i] - (key[i] % 2)) + BitXor(key[i], 1)])

\* CryptoUtils.getKeyCheckValue(key, length): leading bytes of E_key(0^8).
CryptoGetKeyCheckValue(key, length) ==
  Sub(encrypt3DES(key, <<0, 0, 0, 0, 0, 0, 0, 0>>), 0, length)

(* ------------------------------------------------------------------ *)
(* Messages: the insertion-ordered field map                            *)
(* ------------------------------------------------------------------ *)

\* BaseMessage.fields: a sequence of name/value entries in insertion order.
Has(fields, name) == \E i \in 1..Len(fields) : fields[i].name = name

\* BaseMessage.get(field); only used where Has(fields, name) holds.
Get(fields, name) ==
  fields[CHOOSE i \in 1..Len(fields) : fields[i].name = name].value

\* BaseMessage.set putting a new key in front of the existing ones.
Put_Prepend(fields, name, value) ==
  IF Has(fields, name)
  THEN AsSeq([i \in 1..Len(fields) |->
                IF fields[i].name = name THEN [name |-> name, value |-> value]
                ELSE fields[i]])
  ELSE <<[name |-> name, value |-> value]>> \o fields

\* BaseMessage.set(field, value): this.fields[field] = value keeps the
\* position of an existing key and appends a new one.
Put(fields, name, value) ==
  IF Has(fields, name)
  THEN AsSeq([i \in 1..Len(fields) |->
                IF fields[i].name = name THEN [name |-> name, value |-> value]
                ELSE fields[i]])
  ELSE Append(fields, [name |-> name, value |-> value])

(* ------------------------------------------------------------------ *)
(* Frame codec                                                          *)
(* ------------------------------------------------------------------ *)

\* data.readUInt16BE(0)
ReadUInt16BE(data) == 256 * data[1] + data[2]

\* MessageUtils.parseMessage without the comparison of the header bytes.
MsgParseMessage_NoHeaderCheck(data, hdr) ==
  LET fail(e) == [ok |-> FALSE, err |-> e, commandCode |-> <<>>, commandData |-> <<>>]
      offset == 2 + Len(hdr)
  IN IF Len(data) < 2 THEN fail("invalid data")
     ELSE IF ReadUInt16BE(data) # Len(data) - 2 THEN fail("length mismatch")
     ELSE IF Len(data) < offset THEN fail("too short for header")
     ELSE IF Len(data) < offset + 2 THEN fail("too short for command code")
     ELSE [ok |-> TRUE, err |-> "",
           commandCode |-> Sub(data, offset, offset + 2),
           commandData |-> Sub(data, offset + 2, Len(data))]

\* MessageUtils.parseMessage with the header checked before the length
\* prefix.
MsgParseMessage_HeaderFirst(data, hdr) ==
  LET fail(e) == [ok |-> FALSE, err |-> e, commandCode |-> <<>>, commandData |-> <<>>]
      offset == 2 + Len(hdr)
  IN IF Len(data) < 2 THEN fail("invalid data")
     ELSE IF Len(data) < offset THEN fail("too short for header")
     ELSE IF Sub(data, 2, offset) # hdr THEN fail("invalid header")
     ELSE IF ReadUInt16BE(data) # Len(data) - 2 THEN fail("length mismatch")
     ELSE IF Len(data) < offset + 2 THEN fail("too short for command code")
     ELSE [ok |-> TRUE, err |-> "",
           commandCode |-> Sub(data, offset, offset + 2),
           commandData |-> Sub(data, offset + 2, Len(data))]

\* MessageUtils.parseMessage(data, header).  The header buffer of the HSM
\* is always an object, so the header branch is always taken.
MsgParseMessage(data, hdr) ==
  LET fail(e) == [ok |-> FALSE, err |-> e, commandCode |-> <<>>, commandData |-> <<>>]
      offset == 2 + Len(hdr)
  IN IF Len(data) < 2 THEN fail("invalid data")
     ELSE IF ReadUInt16BE(data) # Len(data) - 2 THEN fail("length mismatch")
     ELSE IF Len(data) < offset THEN fail("too short for header")
     ELSE IF Sub(data, 2, offset) # hdr THEN fail("invalid header")
     ELSE IF Len(data) < offset + 2 THEN fail("too short for command code")
     ELSE [ok |-> TRUE, err |-> "",
           commandCode |-> Sub(data, offset, offset + 2),
           commandData |-> Sub(data, offset + 2, Len(data))]

\* lengthBuffer.writeUInt16BE(n, 0)
WriteUInt16BE(n) == <<(n \div 256) % 256, n % 256>>

RECURSIVE ConcatValues(_)
ConcatValues(fields) ==
  IF fields = <<>> THEN <<>>
  ELSE fields[1].value \o ConcatValues(Tail(fields))

\* The array index a property name stands for ("0", "1", "2"), -1 for any
\* other name: a JavaScript object enumerates its index-like names first,
\* in ascending order, and the remaining names in insertion order.
ArrayIndex(name) ==
  CASE name = "0" -> 0 [] name = "1" -> 1 [] name = "2" -> 2 [] OTHER -> -1

\* Object.values(fields) of an object whose properties were inserted in
\* the order of the sequence fields.
ObjectValues(fields) ==
  LET at(k) == SelectSeq(fields, LAMBDA f : ArrayIndex(f.name) = k)
  IN ConcatValues(at(0) \o at(1) \o at(2) \o at(-1))

\* MessageUtils.buildMessage with the header written after the data.
MsgBuildMessage_HeaderLast(header, responseCode, fields) ==
  LET data == responseCode \o ObjectValues(fields)
      fullMessage == data \o header
  IN WriteUInt16BE(Len(fullMessage)) \o fullMessage

\* MessageUtils.buildMessage(header, responseCode, fields); an undefined
\* header is the empty one.
MsgBuildMessage(header, responseCode, fields) ==
  LET data == responseCode \o ObjectValues(fields)
      fullMessage == header \o data
  IN WriteUInt16BE(Len(fullMessage)) \o fullMessage

\* OutgoingMessage.build() with a length prefix that counts itself.
Build_PrefixCountsItself(hdr, fields) ==
  LET fullMessage == hdr \o ConcatValues(fields)
  IN WriteUInt16BE(Len(fullMessage) + 2) \o fullMessage

\* OutgoingMessage.build(): length prefix, header, then the values of all
\* fields in insertion order.
Build(hdr, fields) ==
  LET fullMessage == hdr \o ConcatValues(fields)
  IN WriteUInt16BE(Len(fullMessage)) \o fullMessage

\* OutgoingMessage.setResponseCode / setErrorCode
setResponseCode(fields, code) == Put(fields, "Response Code", code)

setErrorCode(fields, code) == Put(fields, "Error Code", code)

(* ------------------------------------------------------------------ *)
(* Command grammar                                                      *)
(* ------------------------------------------------------------------ *)

IsUTS(b) == b = 85 \/ b = 84 \/ b = 83

\* A0Message.parseData
A0Parse(data) ==
  LET f1 == <<[name |-> "Mode", value |-> Sub(data, 0, 1)],
              [name |-> "Key Type", value |-> Sub(data, 1, 4)],
              [name |-> "Key Scheme", value |-> Sub(data, 4, 5)]>>
      mode1 == Sub(data, 0, 1) = <<Chr["1"]>> /\ 5 < Len(data)
      delim == mode1 /\ At(data, 5) = 59
      f2 == IF delim THEN Put(f1, "ZMK/TMK Flag", Sub(data, 6, 7)) ELSE f1
      offset == IF delim THEN 7 ELSE 5
  IN IF mode1 /\ offset < Len(data) /\ At(data, offset) = 85
     THEN Put(f2, "ZMK/TMK", Sub(data, offset, offset + 33))
     ELSE f2

\* BUMessage.parseData
BUParse(data) ==
  LET f1 == <<[name |-> "Key Type Code", value |-> Sub(data, 0, 2)],
              [name |-> "Key Length Flag", value |-> Sub(data, 2, 3)]>>
  IN IF 3 < Len(data) /\ At(data, 3) = 85
     THEN Put(f1, "Key", Sub(data, 3, 36))
     ELSE f1

\* CAMessage.parseData with an account number that runs to the end of the
\* payload.
CAParse_AccountToEnd(data) ==
  LET t == IsUTS(At(data, 0))
      f1 == IF t THEN <<[name |-> "TPK", value |-> Sub(data, 0, 33)]>> ELSE <<>>
      o1 == IF t THEN 33 ELSE 0
      d == IsUTS(At(data, o1))
      f2 == IF d THEN Put(f1, "Destination Key", Sub(data, o1, o1 + 33)) ELSE f1
      o2 == IF d THEN o1 + 33 ELSE o1
  IN f2 \o <<[name |-> "Maximum PIN Length", value |-> Sub(data, o2, o2 + 2)],
             [name |-> "Source PIN block", value |-> Sub(data, o2 + 2, o2 + 18)],
             [name |-> "Source PIN block format", value |-> Sub(data, o2 + 18, o2 + 20)],
             [name |-> "Destination PIN block format", value |-> Sub(data, o2 + 20, o2 + 22)],
             [name |-> "Account Number", value |-> Sub(data, o2 + 22, Len(data))]>>

\* CAMessage.parseData
CAParse(data) ==
  LET t == IsUTS(At(data, 0))
      f1 == IF t THEN <<[name |-> "TPK", value |-> Sub(data, 0, 33)]>> ELSE <<>>
      o1 == IF t THEN 33 ELSE 0
      d == IsUTS(At(data, o1))
      f2 == IF d THEN Put(f1, "Destination Key", Sub(data, o1, o1 + 33)) ELSE f1
      o2 == IF d THEN o1 + 33 ELSE o1
  IN f2 \o <<[name |-> "Maximum PIN Length", value |-> Sub(data, o2, o2 + 2)],
             [name |-> "Source PIN block", value |-> Sub(data, o2 + 2, o2 + 18)],
             [name |-> "Source PIN block format", value |-> Sub(data, o2 + 18, o2 + 20)],
             [name |-> "Destination PIN block format", value |-> Sub(data, o2 + 20, o2 + 22)],
             [name |-> "Account Number", value |-> Sub(data, o2 + 22, o2 + 34)]>>

\* The tail of CWMessage.parseData / CYMessage.parseData from the PAN on;
\* fails (throws) when no ';' is found at or after offset.
PanTail(data, f, offset) ==
  LET delimiterIndex == IndexOf(data, 59, offset)
  IN IF delimiterIndex = -1 THEN [ok |-> FALSE, fields |-> <<>>]
     ELSE [ok |-> TRUE,
           fields |-> f \o
             <<[name |-> "Primary Account Number", value |-> Sub(data, offset, delimiterIndex)],
               [name |-> "Expiration Date", value |-> Sub(data, delimiterIndex + 1, delimiterIndex + 5)],
               [name |-> "Service Code", value |-> Sub(data, delimiterIndex + 5, delimiterIndex + 8)]>>]

\* CWMessage.parseData
CWParse(data) ==
  LET t == IsUTS(At(data, 0))
      f1 == IF t THEN <<[name |-> "CVK", value |-> Sub(data, 0, 33)]>> ELSE <<>>
  IN PanTail(data, f1, IF t THEN 33 ELSE 0)

\* CYMessage.parseData
CYParse(data) ==
  LET t == IsUTS(At(data, 0))
      f1 == IF t THEN <<[name |-> "CVK", value |-> Sub(data, 0, 33)]>> ELSE <<>>
      o1 == IF t THEN 33 ELSE 0
  IN PanTail(data, Put(f1, "CVV", Sub(data, o1, o1 + 3)), o1 + 3)

\* The common tail of the DC and EC grammars with a PVK pair of 32 bytes
\* whatever its first byte.
PvkTail_Always32(data, f, offset, allowToken) ==
  LET pvkLength == 32
      o1 == offset + pvkLength
      fmt == Sub(data, o1 + 16, o1 + 18)
      token == allowToken /\ fmt = Str2("0", "4")
      o2 == o1 + 18
      o3 == IF token THEN o2 + 18 ELSE o2 + 12
  IN f \o <<[name |-> "PVK Pair", value |-> Sub(data, offset, o1)],
            [name |-> "PIN block", value |-> Sub(data, o1, o1 + 16)],
            [name |-> "PIN block format code", value |-> fmt],
            [name |-> (IF token THEN "Token" ELSE "Account Number"),
             value |-> Sub(data, o2, o3)],
            [name |-> "PVKI", value |-> Sub(data, o3, o3 + 1)],
            [name |-> "PVV", value |-> Sub(data, o3 + 1, o3 + 5)]>>

\* The common tail of the DC and EC grammars from the PVK pair on.
PvkTail(data, f, offset, allowToken) ==
  LET pvkLength == IF At(data, offset) = 85 THEN 33 ELSE 32
      o1 == offset + pvkLength
      fmt == Sub(data, o1 + 16, o1 + 18)
      token == allowToken /\ fmt = Str2("0", "4")
      o2 == o1 + 18
      o3 == IF token THEN o2 + 18 ELSE o2 + 12
  IN f \o <<[name |-> "PVK Pair", value |-> Sub(data, offset, o1)],
            [name |-> "PIN block", value |-> Sub(data, o1, o1 + 16)],
            [name |-> "PIN block format code", value |-> fmt],
            [name |-> (IF token THEN "Token" ELSE "Account Number"),
             value |-> Sub(data, o2, o3)],
            [name |-> "PVKI", value |-> Sub(data, o3, o3 + 1)],
            [name |-> "PVV", value |-> Sub(data, o3 + 1, o3 + 5)]>>

\* DCPinVerificationMessage.parseData
DCParse(data) ==
  LET t == IsUTS(At(data, 0))
  IN PvkTail(data,
             IF t THEN <<[name |-> "TPK", value |-> Sub(data, 0, 33)]>> ELSE <<>>,
             IF t THEN 33 ELSE 0, FALSE)

\* ECPinVerificationMessage.parseData with an Account Number of 12 bytes
\* for every format code.
ECParse_NeverToken(data) ==
  LET u == At(data, 0) = 85
  IN PvkTail(data,
             IF u THEN <<[name |-> "ZPK", value |-> Sub(data, 0, 33)]>> ELSE <<>>,
             IF u THEN 33 ELSE 0, FALSE)

\* ECPinVerificationMessage.parseData
ECParse(data) ==
  LET u == At(data, 0) = 85
  IN PvkTail(data,
             IF u THEN <<[name |-> "ZPK", value |-> Sub(data, 0, 33)]>> ELSE <<>>,
             IF u THEN 33 ELSE 0, TRUE)

\* FAMessage.parseData
FAParse(data) ==
  LET z == At(data, 0) = 85 \/ At(data, 0) = 84
      f1 == IF z THEN <<[name |-> "ZMK", value |-> Sub(data, 0, 33)]>> ELSE <<>>
      o1 == IF z THEN 33 ELSE 0
  IN IF At(data, o1) = 85 \/ At(data, o1) = 84 \/ At(data, o1) = 88
     THEN Put(f1, "ZPK", Sub(data, o1, o1 + 33))
     ELSE f1

\* HCMessage.parseData
HCParse(data) ==
  LET keyLength == IF At(data, 0) = 85 THEN 33 ELSE 16
  IN <<[name |-> "Current Key", value |-> Sub(data, 0, keyLength)],
       [name |-> "Key Scheme (TMK)", value |-> Sub(data, keyLength + 1, keyLength + 2)],
       [name |-> "Key Scheme (LMK)", value |-> Sub(data, keyLength + 2, keyLength + 3)]>>

\* A6Message.parseData
A6Parse(data) ==
  IF Len(data) >= 8 THEN <<[name |-> "Counter", value |-> Sub(data, 0, 8)]>> ELSE <<>>

(* ------------------------------------------------------------------ *)
(* PIN / PVV / CVV derivations                                          *)
(* ------------------------------------------------------------------ *)

IsDigit(c) == c >= 48 /\ c <= 57

\* text.padEnd(n, '0')
PadEnd0(text, n) ==
  IF Len(text) >= n THEN text
  ELSE text \o [i \in 1..(n - Len(text)) |-> 48]

\* buf.toString('hex').toUpperCase()
ToHexUpper(buf) ==
  LET h == ToHex(buf)
  IN AsSeq([i \in 1..Len(h) |-> IF h[i] >= 97 THEN h[i] - 32 ELSE h[i]])

\* PinUtils.getClearPin(pinblock, accountNumber).  ok = FALSE stands for a
\* throw.  For an empty block parseInt(undefined) is NaN, both range tests
\* are false and the digit test fails on the empty string.
getClearPin(pinblock) ==
  LET pinblockHex == ToHexUpper(pinblock)
      pinLength == HexVal(pinblockHex[1])
      pinDigits == SubSeq(pinblockHex, 2, Min(pinLength + 1, Len(pinblockHex)))
      failed == [ok |-> FALSE, pin |-> <<>>]
  IN IF Len(pinblock) = 0 THEN failed
     ELSE IF pinLength < 4 \/ pinLength > 12 THEN failed
     ELSE IF pinDigits = <<>> \/ \E i \in 1..Len(pinDigits) : ~IsDigit(pinDigits[i])
          THEN failed
     ELSE [ok |-> TRUE, pin |-> pinDigits]

\* The 8-byte block getVisaPVV encrypts.
PVVBlock(accountNumber, pvki, pin) ==
  FromHex(SubSeq(PadEnd0(ToHex(accountNumber) \o ToHex(pvki) \o pin, 16), 1, 16))

\* The first n decimal digits of the hex of a ciphertext, padded with '0'.
DecimalDigits(encrypted, n) ==
  LET digits == SelectSeq(ToHex(encrypted), IsDigit)
  IN PadEnd0(SubSeq(digits, 1, Min(n, Len(digits))), n)

\* PinUtils.getVisaPVV throws for these arguments.
PVVThrows(accountNumber, pvki, pin, pvkPair) ==
  CipherThrows(Sub(pvkPair, 0, 16), PVVBlock(accountNumber, pvki, pin))

\* PinUtils.getVisaPVV
getVisaPVV(accountNumber, pvki, pin, pvkPair) ==
  DecimalDigits(encrypt3DES(Sub(pvkPair, 0, 16), PVVBlock(accountNumber, pvki, pin)), 4)

\* The 8-byte block getVisaCVV encrypts.
CVVBlock(accountNumber, expiryDate, serviceCode) ==
  FromHex(SubSeq(PadEnd0(ToHex(accountNumber) \o ToHex(expiryDate) \o ToHex(serviceCode),
                         16), 1, 16))

\* PinUtils.getVisaCVV throws for these arguments.
CVVThrows(accountNumber, expiryDate, serviceCode, cvk) ==
  CipherThrows(cvk, CVVBlock(accountNumber, expiryDate, serviceCode))

\* PinUtils.getVisaCVV
getVisaCVV(accountNumber, expiryDate, serviceCode, cvk) ==
  DecimalDigits(encrypt3DES(cvk, CVVBlock(accountNumber, expiryDate, serviceCode)), 3)

(* ------------------------------------------------------------------ *)
(* Command handlers.  hsm is the HSM instance: its header, lmk,          *)
(* skipParityCheck and approveAll fields.  A handler yields either a     *)
(* response (the field map of an OutgoingMessage) or a throw.            *)
(* ------------------------------------------------------------------ *)

Resp(fields) == [kind |-> "resp", fields |-> fields]

Throw == [kind |-> "throw", fields |-> <<>>]

\* The leading byte dropped for every scheme tag, U, T or S.
StripU_AnyTag(key) == IF IsUTS(At(key, 0)) THEN Sub(key, 1, Len(key)) ELSE key

\* key[0] === 0x55 ? key.subarray(1) : key
StripU(key) == IF At(key, 0) = 85 THEN Sub(key, 1, Len(key)) ELSE key

\* The bytes of a key field that the handlers hand to the cipher:
\* Buffer.from(keyData.toString('hex'), 'hex') of the field without its U.
KeyBytes(key) == ReHex(StripU(key))

\* HSM.checkKeyParity throws: the decrypt under the LMK fails.
ParityThrows(hsm, key) ==
  ~hsm.skipParityCheck /\ CipherThrows(hsm.lmk, KeyBytes(key))

\* HSM.checkKeyParity without the skipParityCheck shortcut.
checkKeyParity_IgnoreSkip(hsm, key) ==
  CryptoCheckKeyParity(decrypt3DES(hsm.lmk, KeyBytes(key)))

\* HSM.checkKeyParity, where it does not throw.
checkKeyParity(hsm, key) ==
  hsm.skipParityCheck
  \/ CryptoCheckKeyParity(decrypt3DES(hsm.lmk, KeyBytes(key)))

\* The error code of the try block of HSM.verifyPin: PIN-block decryption,
\* PIN extraction, PVV derivation and comparison; any throw is caught.
PinTryCode(hsm, request, key, pvkPair) ==
  LET caught == IF hsm.approveAll THEN Str2("0", "0") ELSE Str2("0", "1")
      pinBlock == Get(request.fields, "PIN block")
      keyData == KeyBytes(key)
      clearTerminalKey == decrypt3DES(hsm.lmk, keyData)
      decryptedPinblock == ReHex(decrypt3DES(clearTerminalKey, ReHex(pinBlock)))
      accountNumber == Get(request.fields, "Account Number")
      pin == getClearPin(decryptedPinblock)
      pin4 == SubSeq(pin.pin, 1, Min(4, Len(pin.pin)))
      pvki == Get(request.fields, "PVKI")
      expectedPvv == Get(request.fields, "PVV")
  IN IF CipherThrows(hsm.lmk, keyData) THEN caught
     ELSE IF CipherThrows(clearTerminalKey, ReHex(pinBlock)) THEN caught
     ELSE IF ~Has(request.fields, "Account Number") THEN caught
     ELSE IF ~pin.ok THEN caught
     ELSE IF PVVThrows(accountNumber, pvki, pin4, pvkPair) THEN caught
     ELSE IF getVisaPVV(accountNumber, pvki, pin4, pvkPair) = expectedPvv
          THEN Str2("0", "0")
     ELSE caught

\* HSM.verifyPin with the PVK length check moved before the PVK parity check.
verifyPin_LengthBeforeParity(hsm, request) ==
  LET isDC == request.code = Str2("D", "C")
      keyType == IF isDC THEN "TPK" ELSE "ZPK"
      response == setResponseCode(<<>>, IF isDC THEN Str2("D", "D") ELSE Str2("E", "D"))
      key == Get(request.fields, keyType)
      pvkPair == Get(request.fields, "PVK Pair")
      err(code) == IF hsm.approveAll THEN Str2("0", "0") ELSE code
  IN IF ~Has(request.fields, keyType) THEN Resp(setErrorCode(response, err(Str2("1", "0"))))
     ELSE IF ParityThrows(hsm, key) THEN Throw
     ELSE IF ~checkKeyParity(hsm, key) THEN Resp(setErrorCode(response, err(Str2("1", "0"))))
     ELSE IF ~Has(request.fields, "PVK Pair")
          THEN Resp(setErrorCode(response, err(Str2("1", "1"))))
     ELSE IF Len(pvkPair) # 32 THEN Resp(setErrorCode(response, err(Str2("2", "7"))))
     ELSE IF ParityThrows(hsm, pvkPair) THEN Throw
     ELSE IF ~checkKeyParity(hsm, pvkPair)
          THEN Resp(setErrorCode(response, err(Str2("1", "1"))))
     ELSE Resp(setErrorCode(response, PinTryCode(hsm, request, key, pvkPair)))

\* HSM.verifyPin with error 27 left as it is under approveAll.
verifyPin_No27Override(hsm, request) ==
  LET isDC == request.code = Str2("D", "C")
      keyType == IF isDC THEN "TPK" ELSE "ZPK"
      response == setResponseCode(<<>>, IF isDC THEN Str2("D", "D") ELSE Str2("E", "D"))
      key == Get(request.fields, keyType)
      pvkPair == Get(request.fields, "PVK Pair")
      err(code) == IF hsm.approveAll THEN Str2("0", "0") ELSE code
  IN IF ~Has(request.fields, keyType) THEN Resp(setErrorCode(response, err(Str2("1", "0"))))
     ELSE IF ParityThrows(hsm, key) THEN Throw
     ELSE IF ~checkKeyParity(hsm, key) THEN Resp(setErrorCode(response, err(Str2("1", "0"))))
     ELSE IF ~Has(request.fields, "PVK Pair")
          THEN Resp(setErrorCode(response, err(Str2("1", "1"))))
     ELSE IF ParityThrows(hsm, pvkPair) THEN Throw
     ELSE IF ~checkKeyParity(hsm, pvkPair)
          THEN Resp(setErrorCode(response, err(Str2("1", "1"))))
     ELSE IF Len(pvkPair) # 32 THEN Resp(setErrorCode(response, Str2("2", "7")))
     ELSE Resp(setErrorCode(response, PinTryCode(hsm, request, key, pvkPair)))

\* HSM.verifyPin (DC and EC)
verifyPin(hsm, request) ==
  LET isDC == request.code = Str2("D", "C")
      keyType == IF isDC THEN "TPK" ELSE "ZPK"
      response == setResponseCode(<<>>, IF isDC THEN Str2("D", "D") ELSE Str2("E", "D"))
      key == Get(request.fields, keyType)
      pvkPair == Get(request.fields, "PVK Pair")
      err(code) == IF hsm.approveAll THEN Str2("0", "0") ELSE code
  IN IF ~Has(request.fields, keyType) THEN Resp(setErrorCode(response, err(Str2("1", "0"))))
     ELSE IF ParityThrows(hsm, key) THEN Throw
     ELSE IF ~checkKeyParity(hsm, key) THEN Resp(setErrorCode(response, err(Str2("1", "0"))))
     ELSE IF ~Has(request.fields, "PVK Pair")
          THEN Resp(setErrorCode(response, err(Str2("1", "1"))))
     ELSE IF ParityThrows(hsm, pvkPair) THEN Throw
     ELSE IF ~checkKeyParity(hsm, pvkPair)
          THEN Resp(setErrorCode(response, err(Str2("1", "1"))))
     ELSE IF Len(pvkPair) # 32 THEN Resp(setErrorCode(response, err(Str2("2", "7"))))
     ELSE Resp(setErrorCode(response, PinTryCode(hsm, request, key, pvkPair)))

\* The part of verifyCvv / generateCvv after the parity check: decrypt
\* the CVK under the LMK and derive the CVV.  ok = FALSE stands for a throw.
DeriveCvv(hsm, request) ==
  LET cvkData == KeyBytes(Get(request.fields, "CVK"))
      clearCvk == decrypt3DES(hsm.lmk, cvkData)
      accountNumber == Get(request.fields, "Primary Account Number")
      expiryDate == Get(request.fields, "Expiration Date")
      serviceCode == Get(request.fields, "Service Code")
  IN IF CipherThrows(hsm.lmk, cvkData) THEN [ok |-> FALSE, cvv |-> <<>>]
     ELSE IF CVVThrows(accountNumber, expiryDate, serviceCode, clearCvk)
          THEN [ok |-> FALSE, cvv |-> <<>>]
     ELSE [ok |-> TRUE,
           cvv |-> getVisaCVV(accountNumber, expiryDate, serviceCode, clearCvk)]

\* HSM.verifyCvv (CY).  A request without a CVK field makes key[0] (or
\* cvk[0], when the parity check is skipped) a TypeError.
verifyCvv(hsm, request) ==
  LET response == setResponseCode(<<>>, Str2("C", "Z"))
      cvk == Get(request.fields, "CVK")
      derived == DeriveCvv(hsm, request)
  IN IF ~Has(request.fields, "CVK") THEN Throw
     ELSE IF ParityThrows(hsm, cvk) THEN Throw
     ELSE IF ~checkKeyParity(hsm, cvk) THEN Resp(setErrorCode(response, Str2("1", "0")))
     ELSE IF ~derived.ok THEN Throw
     ELSE IF derived.cvv = Get(request.fields, "CVV")
          THEN Resp(setErrorCode(response, Str2("0", "0")))
     ELSE Resp(setErrorCode(response,
                            IF hsm.approveAll THEN Str2("0", "0") ELSE Str2("0", "1")))

\* HSM.generateCvv in which approveAll makes a failed parity check pass
\* instead of ending the request with error 00.
generateCvv_ApproveAllContinues(hsm, request) ==
  LET response == setResponseCode(<<>>, Str2("C", "X"))
      cvk == Get(request.fields, "CVK")
      derived == DeriveCvv(hsm, request)
  IN IF ~Has(request.fields, "CVK") THEN Throw
     ELSE IF ParityThrows(hsm, cvk) THEN Throw
     ELSE IF ~checkKeyParity(hsm, cvk) /\ ~hsm.approveAll
          THEN Resp(setErrorCode(response, Str2("1", "0")))
     ELSE IF ~derived.ok THEN Throw
     ELSE Resp(Put(setErrorCode(response, Str2("0", "0")), "CVV", derived.cvv))

\* HSM.generateCvv (CW)
generateCvv(hsm, request) ==
  LET response == setResponseCode(<<>>, Str2("C", "X"))
      cvk == Get(request.fields, "CVK")
      derived == DeriveCvv(hsm, request)
  IN IF ~Has(request.fields, "CVK") THEN Throw
     ELSE IF ParityThrows(hsm, cvk) THEN Throw
     ELSE IF ~checkKeyParity(hsm, cvk)
          THEN Resp(setErrorCode(response,
                                 IF hsm.approveAll THEN Str2("0", "0") ELSE Str2("1", "0")))
     ELSE IF ~derived.ok THEN Throw
     ELSE Resp(Put(setErrorCode(response, Str2("0", "0")), "CVV", derived.cvv))

\* The firmware version string '0007-E000'.
firmwareVersion ==
  <<Chr["0"], Chr["0"], Chr["0"], Chr["7"], Chr["-"], Chr["E"], Chr["0"], Chr["0"], Chr["0"]>>

\* HSM.getDiagnosticsData (NC)
getDiagnosticsData(hsm) ==
  LET response == setErrorCode(setResponseCode(<<>>, Str2("N", "D")), Str2("0", "0"))
  IN IF CipherThrows(hsm.lmk, <<0, 0, 0, 0, 0, 0, 0, 0>>) THEN Throw
     ELSE Resp(Put(Put(response, "LMK Check Value", CryptoGetKeyCheckValue(hsm.lmk, 16)),
                   "Firmware Version", firmwareVersion))

\* HSM.getKeyCheckValue (BU)
getKeyCheckValue(hsm, request) ==
  LET response == setErrorCode(setResponseCode(<<>>, Str2("B", "V")), Str2("0", "0"))
      keyData == KeyBytes(Get(request.fields, "Key"))
  IN IF ~Has(request.fields, "Key") THEN Throw
     ELSE IF CipherThrows(keyData, <<0, 0, 0, 0, 0, 0, 0, 0>>) THEN Throw
     ELSE Resp(Put(response, "Key Check Value", CryptoGetKeyCheckValue(keyData, 16)))

\* CryptoUtils.generateRandomKey, given the bytes randomBytes returned.
generateRandomKey(random) == modifyKeyParity(random)

\* HSM.generateKeyA0 (A0)
generateKeyA0(hsm, request, random) ==
  LET response == setErrorCode(setResponseCode(<<>>, Str2("A", "1")), Str2("0", "0"))
      newClearKey == generateRandomKey(random)
      newKeyUnderLmk == encrypt3DES(hsm.lmk, newClearKey)
      r1 == Put(response, "Key under LMK", <<85>> \o ReHex(newKeyUnderLmk))
      zmkData == ReHex(Sub(Get(request.fields, "ZMK/TMK"), 1, 33))
      clearZmk == decrypt3DES(hsm.lmk, zmkData)
      newKeyUnderZmk == encrypt3DES(clearZmk, newClearKey)
  IN IF CipherThrows(hsm.lmk, newClearKey) THEN Throw
     ELSE IF ~Has(request.fields, "ZMK/TMK") THEN Resp(r1)
     ELSE IF CipherThrows(hsm.lmk, zmkData) THEN Throw
     ELSE IF CipherThrows(clearZmk, newClearKey) THEN Throw
     ELSE Resp(Put(Put(r1, "Key under ZMK", <<85>> \o ReHex(newKeyUnderZmk)),
                   "Key Check Value", CryptoGetKeyCheckValue(newClearKey, 6)))

\* HSM.setKMCSequenceNumber (A6)
setKMCSequenceNumber(hsm, request) ==
  Resp(setErrorCode(setResponseCode(<<>>, Str2("A", "7")), Str2("0", "0")))

\* The command codes of the model: the ten core commands, A6 (an extended
\* command with a handler) and KT (an extended command without one).  The
\* other extended commands are not part of the input domain.
CoreCodes ==
  {Str2("A", "0"), Str2("B", "U"), Str2("C", "A"), Str2("C", "W"), Str2("C", "Y"),
   Str2("D", "C"), Str2("E", "C"), Str2("F", "A"), Str2("H", "C"), Str2("N", "C")}

\* HSM.parseMessage: frame parsing, then the command class chosen by the
\* command code; null for an unsupported code and for any parse error.
ParseRequest(hsm, data) ==
  LET m == MsgParseMessage(data, hsm.header)
      code == m.commandCode
      d == m.commandData
      msg(fields) == [kind |-> "msg", code |-> code, fields |-> fields]
      null == [kind |-> "null", code |-> <<>>, fields |-> <<>>]
  IN IF ~m.ok THEN null
     ELSE IF code = Str2("A", "0") THEN msg(A0Parse(d))
     ELSE IF code = Str2("B", "U") THEN msg(BUParse(d))
     ELSE IF code = Str2("C", "A") THEN msg(CAParse(d))
     ELSE IF code = Str2("C", "W")
          THEN (IF CWParse(d).ok THEN msg(CWParse(d).fields) ELSE null)
     ELSE IF code = Str2("C", "Y")
          THEN (IF CYParse(d).ok THEN msg(CYParse(d).fields) ELSE null)
     ELSE IF code = Str2("D", "C") THEN msg(DCParse(d))
     ELSE IF code = Str2("E", "C") THEN msg(ECParse(d))
     ELSE IF code = Str2("F", "A") THEN msg(FAParse(d))
     ELSE IF code = Str2("H", "C") THEN msg(HCParse(d))
     ELSE IF code = Str2("N", "C") THEN msg(<<>>)
     ELSE IF code = Str2("A", "6") THEN msg(A6Parse(d))
     ELSE IF code = Str2("K", "T") THEN msg(<<>>)
     ELSE null

\* HSM.getResponse: dispatch on the command code of the parsed message.
getResponse(hsm, request, random) ==
  LET code == request.code
  IN IF code = Str2("A", "0") THEN generateKeyA0(hsm, request, random)
     ELSE IF code = Str2("A", "6") THEN setKMCSequenceNumber(hsm, request)
     ELSE IF code = Str2("B", "U") THEN getKeyCheckValue(hsm, request)
     ELSE IF code = Str2("C", "W") THEN generateCvv(hsm, request)
     ELSE IF code = Str2("C", "Y") THEN verifyCvv(hsm, request)
     ELSE IF code = Str2("D", "C") \/ code = Str2("E", "C") THEN verifyPin(hsm, request)
     ELSE IF code = Str2("N", "C") THEN getDiagnosticsData(hsm)
     ELSE Resp(setErrorCode(setResponseCode(<<>>, Str2("Z", "Z")), Str2("0", "0")))

(* ------------------------------------------------------------------ *)
(* The requests of the model                                            *)
(* ------------------------------------------------------------------ *)

\* The default LMK, deafbeedeafbeedeafbeedeafbeedeaf.
DefaultLmk ==
  <<222, 175, 190, 237, 234, 251, 238, 222, 175, 190, 237, 234, 251, 238, 222, 175>>

HexUpper == (48..57) \cup (65..70)

\* An uppercase hex character that, at block position j, decrypts under
\* the default LMK to a byte of odd (odd = 1) or even (odd = 0) parity.
ParityChar(j, odd) ==
  CHOOSE c \in HexUpper : BitXor((c - EdeShift(DefaultLmk, j)) % 256, 0) = odd

\* 32 hex characters that pass the parity check under the default LMK, and
\* 32 that fail it in their last byte only.
GoodKey == AsSeq([i \in 1..32 |-> ParityChar(((i - 1) % 8) + 1, 1)])

BadKey == AsSeq([i \in 1..32 |-> ParityChar(((i - 1) % 8) + 1, IF i = 32 THEN 0 ELSE 1)])

Digits(n, first) == AsSeq([i \in 1..n |-> 48 + ((first + i - 1) % 10)])

\* PIN block (16), format code 01, account number (12), PVKI, PVV.
PinTail == Digits(16, 0) \o Str2("0", "1") \o Digits(12, 4) \o <<Chr["1"]>> \o Digits(4, 1)

\* The same with format code 04 and an 18-byte token.
TokenTail == Digits(16, 0) \o Str2("0", "4") \o Digits(18, 4) \o <<Chr["1"]>> \o Digits(4, 1)

\* PAN, ';', expiry date, service code; and the same without the ';'.
CardTail == Digits(16, 4) \o <<59>> \o Digits(4, 2) \o Digits(3, 1)

CardTailNoDelimiter == Digits(16, 4) \o Digits(4, 2) \o Digits(3, 1)

\* A clear PIN block as getClearPin reads it, 41234FFFFFFFFFFF: the first
\* nibble is the PIN length 4, then the PIN 1234, then filler F.
ClearPinBlock == <<65, 35, 79, 255, 255, 255, 255, 255>>

\* A DC/EC tail whose PIN block is ClearPinBlock encrypted under the key that
\* the 32 hex characters of GoodKey, decoded to 16 bytes, decrypt to under
\* the LMK, and whose PVV is the one getVisaPVV gives for PIN 1234.
MatchingPinTail ==
  ToHexUpper(encrypt3DES(decrypt3DES(DefaultLmk, FromHex(GoodKey)), ClearPinBlock))
    \o Str2("0", "1") \o Digits(12, 4) \o <<Chr["1"]>>
    \o getVisaPVV(Digits(12, 4), <<Chr["1"]>>, Digits(4, 1), GoodKey)

TerminalKeys == {<<85>> \o GoodKey, <<85>> \o BadKey, <<84>> \o GoodKey, <<>>}

PvkPairs == {GoodKey, BadKey, <<85>> \o GoodKey, <<85>> \o BadKey}

DCPayloads ==
  {k \o p \o PinTail : k \in TerminalKeys, p \in PvkPairs}
  \cup {k \o SubSeq(GoodKey, 1, 10) : k \in {<<85>> \o GoodKey, <<>>}}
  \cup {<<85>> \o GoodKey \o GoodKey \o MatchingPinTail}

ECPayloads ==
  {k \o p \o PinTail : k \in {<<85>> \o GoodKey, <<85>> \o BadKey, <<>>}, p \in PvkPairs}
  \cup {<<85>> \o GoodKey \o GoodKey \o TokenTail,
        <<85>> \o BadKey \o GoodKey \o TokenTail}

CWPayloads == {k \o t : k \in TerminalKeys, t \in {CardTail, CardTailNoDelimiter}}

CYPayloads == {k \o Digits(3, 7) \o t : k \in TerminalKeys, t \in {CardTail, CardTailNoDelimiter}}

BUPayloads ==
  {Digits(3, 0) \o k : k \in {<<85>> \o GoodKey, <<85>> \o SubSeq(GoodKey, 1, 16),
                                <<85>> \o SubSeq(GoodKey, 1, 5), <<>>}}

A0Payloads ==
  {Digits(4, 0) \o <<85>>,
   <<Chr["1"]>> \o Digits(3, 0) \o <<85, 59, 48, 85>> \o GoodKey,
   <<Chr["1"]>> \o Digits(3, 0) \o <<85, 85>> \o SubSeq(GoodKey, 1, 5),
   <<Chr["1"]>> \o Digits(3, 0) \o <<85, 85>> \o SubSeq(GoodKey, 1, 16)}

\* Command code and payload of every request of the model; ZX is a code
\* the simulator does not know.
Requests ==
  {Str2("D", "C") \o p : p \in DCPayloads}
  \cup {Str2("E", "C") \o p : p \in ECPayloads}
  \cup {Str2("C", "W") \o p : p \in CWPayloads}
  \cup {Str2("C", "Y") \o p : p \in CYPayloads}
  \cup {Str2("B", "U") \o p : p \in BUPayloads}
  \cup {Str2("A", "0") \o p : p \in A0Payloads}
  \cup {Str2("N", "C") \o p : p \in {<<>>, Digits(2, 0)}}
  \cup {Str2("C", "A") \o <<85>> \o GoodKey \o <<85>> \o GoodKey \o Digits(2, 1) \o PinTail}
  \cup {Str2("F", "A") \o <<85>> \o GoodKey \o <<88>> \o GoodKey}
  \cup {Str2("H", "C") \o <<85>> \o GoodKey \o <<59>> \o Digits(2, 0)}
  \cup {Str2("H", "C") \o <<85>> \o GoodKey \o Digits(3, 0)}
  \cup {Str2("D", "C") \o <<88>> \o GoodKey \o GoodKey \o PinTail,
        Str2("C", "W") \o <<88>> \o GoodKey \o CardTail}
  \cup {Str2("H", "C") \o <<85>> \o GoodKey \o <<59>> \o Digits(2, 0) \o <<85, 59>>,
        Str2("B", "U") \o Digits(3, 0) \o <<85>> \o GoodKey \o <<59, 85>>}
  \cup {Str2("D", "C") \o <<83>> \o GoodKey \o GoodKey \o PinTail,
        Str2("C", "W") \o <<83>> \o GoodKey \o CardTail,
        Str2("C", "Y") \o <<83>> \o GoodKey \o Digits(3, 7) \o CardTail}
  \cup {Str2("A", "6") \o Digits(8, 0), Str2("K", "T"), Str2("Z", "X")}

Headers == {<<>>, <<83, 83, 83, 83>>}

\* A well-formed frame: length prefix, header, command code and payload.
Frame(hdr, body) == WriteUInt16BE(Len(hdr) + Len(body)) \o hdr \o body

\* Buffers that are not one well-formed frame for header hdr: too short,
\* a wrong length prefix, a wrong header, no room for the command code, and
\* two frames in one buffer.
BadFrames(hdr) ==
  {<<>>, <<0>>,
   <<0, 9>> \o hdr \o Str2("N", "C"),
   Frame(<<72, 72, 72, 72>>, Str2("N", "C") \o Digits(2, 0)),
   Frame(<<>>, <<83>>),
   <<0, 9, 72, 72, 72, 72>> \o Str2("N", "C"),
   Frame(hdr, <<78>>),
   Frame(hdr, Str2("N", "C")) \o Frame(hdr, Str2("N", "C"))}

\* A well-formed NC frame whose payload is the bytes of an NC frame.
NestedFrame(hdr) == Frame(hdr, Str2("N", "C") \o Frame(hdr, Str2("N", "C")))

\* The buffers two data events deliver when a frame arrives in two pieces:
\* an NC frame with two payload bytes cut after its third byte, and the
\* nested frame cut in front of its payload.
SplitPieces(hdr) ==
  LET f == Frame(hdr, Str2("N", "C") \o Digits(2, 0))
      n == NestedFrame(hdr)
  IN {SubSeq(f, 1, 3), SubSeq(f, 4, Len(f)),
      SubSeq(n, 1, 4 + Len(hdr)), SubSeq(n, 5 + Len(hdr), Len(n))}

\* What a data event can deliver to an HSM configured with header hdr.
DataEvents(hdr) ==
  {Frame(hdr, r) : r \in Requests} \cup BadFrames(hdr)
    \cup {NestedFrame(hdr)} \cup SplitPieces(hdr)

\* What randomBytes(16) can return (two of the 2^128 values).
RandomValues ==
  {AsSeq([i \in 1..16 |-> 16 * i + 3]), AsSeq([i \in 1..16 |-> 255 - 7 * i])}

(* ------------------------------------------------------------------ *)
(* The server: one client connection                                    *)
(* ------------------------------------------------------------------ *)

\* Data events handled on the connection.
MaxData == 2

VARIABLES
  hsm,           \* the HSM instance: header, lmk, skipParityCheck, approveAll
  conn,          \* "none", "open" (handleClient ran), "closed" (peer closed) or
                 \* "failed" (the constructor threw: there is no server)
  ended,         \* socket.end() has been called
  crashed,       \* an exception left the data handler: the process is gone
  messageCount,  \* handleClient's counter of data events
  lastData,      \* the buffer of the last data event
  lastRandom,    \* what randomBytes returned in the last data event, if called
  lastOutcome,   \* "none", "rejected", "written" or "thrown"
  lastFields,    \* the field map of the response built in the last data event
  lastWrite,     \* the bytes given to socket.write in the last data event
  writeLog,      \* for each socket.write so far, the messageCount of its request
  calc,          \* the last direct call of a utility function: name, arguments, result
  peer           \* a second connection: the buffer of its data event and the outcome

vars ==
  <<hsm, conn, ended, crashed, messageCount, lastData, lastRandom, lastOutcome,
    lastFields, lastWrite, writeLog, calc, peer>>

\* No utility function has been called.
NoCall == [op |-> "none", args |-> <<>>, out |-> <<>>, threw |-> FALSE]

\* The second connection has received nothing.
NoPeer == [data |-> <<>>, outcome |-> "none", bytes |-> <<>>]

\* The hex strings config.key can hold; <<>> stands for no key given.
\* Besides the 32 hex characters of the default LMK: the same followed by
\* one more character, 16 hex characters, 34 hex characters and 'invalid'.
ConfigKeys ==
  {<<>>, ToHex(DefaultLmk), ToHex(DefaultLmk) \o <<48>>,
   SubSeq(ToHex(DefaultLmk), 1, 16), ToHex(DefaultLmk) \o <<48, 48>>,
   <<105, 110, 118, 97, 108, 105, 100>>}

\* config.key ? Buffer.from(config.key, 'hex') : the default LMK
LmkOf(key) == IF key = <<>> THEN DefaultLmk ELSE FromHex(key)

\* The constructor accepts the LMK with a length check that lets every
\* LMK of at most 16 bytes pass.
LmkAccepted_AtMost16(lmk) == Len(lmk) <= 16

\* The constructor's test of the LMK: it throws unless this holds.
LmkAccepted(lmk) == Len(lmk) = 16

\* HSM constructor: header, LMK and the two policy flags; it throws for an
\* LMK that is not 16 bytes long, and then no server is started.
Init ==
  /\ hsm \in [header : Headers, lmk : {LmkOf(key) : key \in ConfigKeys},
              skipParityCheck : BOOLEAN, approveAll : BOOLEAN]
  /\ conn = IF LmkAccepted(hsm.lmk) THEN "none" ELSE "failed"
  /\ ended = FALSE
  /\ crashed = FALSE
  /\ messageCount = 0
  /\ lastData = <<>>
  /\ lastRandom = <<>>
  /\ lastOutcome = "none"
  /\ lastFields = <<>>
  /\ lastWrite = <<>>
  /\ writeLog = <<>>
  /\ calc = NoCall
  /\ peer = NoPeer

\* server.on('connection'): handleClient registers the handlers.
Connect ==
  /\ conn = "none"
  /\ conn' = "open"
  /\ messageCount' = 0
  /\ UNCHANGED <<hsm, ended, crashed, lastData, lastRandom, lastOutcome, lastFields,
                 lastWrite, writeLog, calc, peer>>

\* What the data handler does with one buffer: "rejected" (parseMessage
\* returned null: socket.end(), no write), "written" (socket.write of the
\* built response) or "thrown" (the handler threw; nothing catches it).
Handle(h, data, random) ==
  LET request == ParseRequest(h, data)
      response == getResponse(h, request, random)
  IN IF request.kind = "null"
     THEN [outcome |-> "rejected", fields |-> <<>>, bytes |-> <<>>]
     ELSE IF response.kind = "throw"
     THEN [outcome |-> "thrown", fields |-> <<>>, bytes |-> <<>>]
     ELSE [outcome |-> "written", fields |-> response.fields,
           bytes |-> Build(h.header, response.fields)]

\* randomBytes is called in generateKeyA0 only: the values it can return
\* while data is handled, <<>> standing for no call.
RandomDraws(h, data) ==
  IF ParseRequest(h, data).code = Str2("A", "0") THEN RandomValues ELSE {<<>>}

\* The data handler with a policy flag that a rejected buffer switches on.
OnData_RejectionSetsApproveAll(data, random) ==
  /\ conn = "open"
  /\ ~crashed
  /\ messageCount < MaxData
  /\ \E r \in {Handle(hsm, data, random)} :
        /\ messageCount' = messageCount + 1
        /\ lastData' = data
        /\ lastRandom' = random
        /\ lastOutcome' = r.outcome
        /\ lastFields' = r.fields
        /\ lastWrite' = r.bytes
        /\ writeLog' = IF r.outcome = "written"
                       THEN Append(writeLog, messageCount + 1) ELSE writeLog
        /\ ended' = (ended \/ r.outcome = "rejected")
        /\ crashed' = (r.outcome = "thrown")
        /\ hsm' = IF r.outcome = "rejected" THEN [hsm EXCEPT !.approveAll = TRUE]
                  ELSE hsm
  /\ UNCHANGED <<conn, calc, peer>>

\* The data handler with a cross-frame state: a response is preceded by the
\* bytes written for the request before it.
OnData_RepeatsLastResponse(data, random) ==
  /\ conn = "open"
  /\ ~crashed
  /\ messageCount < MaxData
  /\ \E r \in {Handle(hsm, data, random)} :
        /\ messageCount' = messageCount + 1
        /\ lastData' = data
        /\ lastRandom' = random
        /\ lastOutcome' = r.outcome
        /\ lastFields' = r.fields
        /\ lastWrite' = IF r.outcome = "written" THEN lastWrite \o r.bytes ELSE r.bytes
        /\ writeLog' = IF r.outcome = "written"
                       THEN Append(writeLog, messageCount + 1) ELSE writeLog
        /\ ended' = (ended \/ r.outcome = "rejected")
        /\ crashed' = (r.outcome = "thrown")
  /\ UNCHANGED <<hsm, conn, calc, peer>>

\* The data handler with the response written twice.
OnData_WriteTwice(data, random) ==
  /\ conn = "open"
  /\ ~crashed
  /\ messageCount < MaxData
  /\ \E r \in {Handle(hsm, data, random)} :
        /\ messageCount' = messageCount + 1
        /\ lastData' = data
        /\ lastRandom' = random
        /\ lastOutcome' = r.outcome
        /\ lastFields' = r.fields
        /\ lastWrite' = r.bytes
        /\ writeLog' = IF r.outcome = "written"
                       THEN writeLog \o <<messageCount + 1, messageCount + 1>>
                       ELSE writeLog
        /\ ended' = (ended \/ r.outcome = "rejected")
        /\ crashed' = (r.outcome = "thrown")
  /\ UNCHANGED <<hsm, conn, calc, peer>>

\* socket.on('data'): the whole handler for one buffer.
OnData(data, random) ==
  /\ conn = "open"
  /\ ~crashed
  /\ messageCount < MaxData
  /\ \E r \in {Handle(hsm, data, random)} :
        /\ messageCount' = messageCount + 1
        /\ lastData' = data
        /\ lastRandom' = random
        /\ lastOutcome' = r.outcome
        /\ lastFields' = r.fields
        /\ lastWrite' = r.bytes
        /\ writeLog' = IF r.outcome = "written"
                       THEN Append(writeLog, messageCount + 1) ELSE writeLog
        /\ ended' = (ended \/ r.outcome = "rejected")
        /\ crashed' = (r.outcome = "thrown")
  /\ UNCHANGED <<hsm, conn, calc, peer>>

\* socket.on('close'): the peer closed the connection.
OnClose ==
  /\ conn = "open"
  /\ ~crashed
  /\ conn' = "closed"
  /\ UNCHANGED <<hsm, ended, crashed, messageCount, lastData, lastRandom, lastOutcome,
                 lastFields, lastWrite, writeLog, calc, peer>>

Next ==
  \/ Connect
  \/ \E data \in DataEvents(hsm.header) :
        \E random \in RandomDraws(hsm, data) : OnData(data, random)
  \/ OnClose

Spec == Init /\ [][Next]_vars

(* ------------------------------------------------------------------ *)
(* The server with two client connections                               *)
(* ------------------------------------------------------------------ *)

\* What the clients of two concurrent connections send: NC, a DC and a CW
\* request, and a buffer that is no frame.
PeerEvents(hdr) ==
  {Frame(hdr, Str2("N", "C")),
   Frame(hdr, Str2("D", "C") \o <<85>> \o GoodKey \o GoodKey \o PinTail),
   Frame(hdr, Str2("C", "W") \o <<85>> \o GoodKey \o CardTail),
   <<0>>}

\* The data handler of a second connection accepted by the same server,
\* for the one buffer its client sends.  Both handlers run to completion on
\* the one event loop; nothing answers the client once an exception has
\* left a data handler and ended the process.
OnPeerData(data) ==
  /\ conn \in {"open", "closed"}
  /\ peer.outcome = "none"
  /\ IF crashed
     THEN /\ peer' = [data |-> data, outcome |-> "unanswered", bytes |-> <<>>]
          /\ crashed' = crashed
     ELSE \E r \in {Handle(hsm, data, <<>>)} :
            /\ peer' = [data |-> data, outcome |-> r.outcome, bytes |-> r.bytes]
            /\ crashed' = (r.outcome = "thrown")
  /\ UNCHANGED <<hsm, conn, ended, messageCount, lastData, lastRandom, lastOutcome,
                 lastFields, lastWrite, writeLog, calc>>

PeerNext ==
  \/ Connect
  \/ \E data \in PeerEvents(hsm.header) : OnData(data, <<>>)
  \/ \E data \in PeerEvents(hsm.header) : OnPeerData(data)
  \/ OnClose

PeerSpec == Init /\ [][PeerNext]_vars

(* ------------------------------------------------------------------ *)
(* The utility functions called directly, as the unit tests call them   *)
(* ------------------------------------------------------------------ *)

\* Account numbers of 4, 12 and 16 digits.
Accounts == {Digits(4, 4), Digits(12, 4), Digits(16, 4)}

Pvkis == {<<Chr["1"]>>, <<Chr["2"]>>}

\* PINs as getClearPin returns them: strings of 4 or 5 digits.
Pins == {Digits(4, 1), Digits(4, 5), Digits(5, 1), <<49, 50, 51, 53>>}

\* Keys of 16 bytes, binary and as the ASCII text of a key field cut to 16.
UtilKeys == {DefaultLmk, SubSeq(GoodKey, 1, 16)}

ExpiryDates == {<<50, 53, 49, 50>>, <<50, 54, 49, 50>>}

ServiceCodes == {<<49, 48, 49>>, <<50, 48, 49>>}

\* Byte strings given to modifyKeyParity: every single byte, and what
\* randomBytes(16) can return.
ParityInputs == {<<b>> : b \in 0..255} \cup RandomValues

\* The lengths getKeyCheckValue is called with.
KcvLengths == {0, 1, 3, 6, 8, 16}

\* Buffers given to getClearPin as the PIN block: 8-byte blocks with a PIN
\* of 4 and of 12 digits, with a length nibble of 3 and of 13, with a
\* letter among the PIN digits, and blocks of 0, 1, 2 and 3 bytes.
PinBlocks ==
  {ClearPinBlock,
   <<193, 35, 69, 103, 137, 1, 47, 255>>,
   <<49, 35, 255, 255, 255, 255, 255, 255>>,
   <<209, 35, 69, 103, 137, 1, 35, 255>>,
   <<65, 42, 79, 255, 255, 255, 255, 255>>,
   <<>>, <<65>>, <<129, 35>>, <<65, 35, 69>>}

\* Field maps given to buildMessage, as the sequence of their properties in
\* insertion order: none, one, two in both orders, and maps with names
\* that are array indices.
FieldMaps ==
  LET a == <<65, 66>>
      b == <<55>>
  IN {<<>>,
      <<[name |-> "data", value |-> a]>>,
      <<[name |-> "data", value |-> a], [name |-> "Key", value |-> b]>>,
      <<[name |-> "Key", value |-> b], [name |-> "data", value |-> a]>>,
      <<[name |-> "data", value |-> <<>>], [name |-> "Key", value |-> b]>>,
      <<[name |-> "1", value |-> a], [name |-> "0", value |-> b]>>,
      <<[name |-> "data", value |-> a], [name |-> "2", value |-> b]>>,
      <<[name |-> "0", value |-> a], [name |-> "1", value |-> b]>>}

\* Two-byte command codes given to buildMessage.
BuildCodes == {Str2("N", "C"), Str2("A", "6"), Str2("9", "9")}

serverVars ==
  <<hsm, conn, ended, crashed, messageCount, lastData, lastRandom, lastOutcome,
    lastFields, lastWrite, writeLog, peer>>

\* PinUtils.getVisaPVV(accountNumber, pvki, pin, pvkPair)
CallGetVisaPVV(accountNumber, pvki, pin, pvkPair) ==
  /\ calc' = [op |-> "getVisaPVV", args |-> <<accountNumber, pvki, pin, pvkPair>>,
              out |-> IF PVVThrows(accountNumber, pvki, pin, pvkPair) THEN <<>>
                      ELSE getVisaPVV(accountNumber, pvki, pin, pvkPair),
              threw |-> PVVThrows(accountNumber, pvki, pin, pvkPair)]
  /\ UNCHANGED serverVars

\* PinUtils.getVisaCVV(accountNumber, expiryDate, serviceCode, cvk)
CallGetVisaCVV(accountNumber, expiryDate, serviceCode, cvk) ==
  /\ calc' = [op |-> "getVisaCVV", args |-> <<accountNumber, expiryDate, serviceCode, cvk>>,
              out |-> IF CVVThrows(accountNumber, expiryDate, serviceCode, cvk) THEN <<>>
                      ELSE getVisaCVV(accountNumber, expiryDate, serviceCode, cvk),
              threw |-> CVVThrows(accountNumber, expiryDate, serviceCode, cvk)]
  /\ UNCHANGED serverVars

\* CryptoUtils.modifyKeyParity(key)
CallModifyKeyParity(key) ==
  /\ calc' = [op |-> "modifyKeyParity", args |-> <<key>>,
              out |-> modifyKeyParity(key), threw |-> FALSE]
  /\ UNCHANGED serverVars

\* CryptoUtils.getKeyCheckValue(key, length)
CallGetKeyCheckValue(key, length) ==
  /\ calc' = [op |-> "getKeyCheckValue", args |-> <<key, <<length>>>>,
              out |-> CryptoGetKeyCheckValue(key, length), threw |-> FALSE]
  /\ UNCHANGED serverVars

\* PinUtils.getClearPin(pinblock, accountNumber)
CallGetClearPin(pinblock, accountNumber) ==
  /\ calc' = [op |-> "getClearPin", args |-> <<pinblock, accountNumber>>,
              out |-> getClearPin(pinblock).pin,
              threw |-> ~getClearPin(pinblock).ok]
  /\ UNCHANGED serverVars

\* MessageUtils.parseMessage(MessageUtils.buildMessage(header, code, fields),
\* header): out holds the command code and the command data returned.
CallParseBuilt(header, code, fields) ==
  /\ \E r \in {MsgParseMessage(MsgBuildMessage(header, code, fields), header)} :
       calc' = [op |-> "parseBuilt", args |-> <<header, code, fields>>,
                out |-> <<r.commandCode, r.commandData>>, threw |-> ~r.ok]
  /\ UNCHANGED serverVars

UtilNext ==
  \/ \E accountNumber \in Accounts, pvki \in Pvkis, pin \in Pins, pvkPair \in UtilKeys :
        CallGetVisaPVV(accountNumber, pvki, pin, pvkPair)
  \/ \E accountNumber \in Accounts, expiryDate \in ExpiryDates,
         serviceCode \in ServiceCodes, cvk \in UtilKeys :
        CallGetVisaCVV(accountNumber, expiryDate, serviceCode, cvk)
  \/ \E key \in ParityInputs : CallModifyKeyParity(key)
  \/ \E key \in UtilKeys, length \in KcvLengths : CallGetKeyCheckValue(key, length)
  \/ \E pinblock \in PinBlocks, accountNumber \in Accounts :
        CallGetClearPin(pinblock, accountNumber)
  \/ \E header \in Headers, code \in BuildCodes, fields \in FieldMaps :
        CallParseBuilt(header, code, fields)

\* The utility functions do not depend on the HSM instance: it is the
\* default one.
UtilInit ==
  /\ Init
  /\ hsm = [header |-> <<>>, lmk |-> DefaultLmk,
            skipParityCheck |-> FALSE, approveAll |-> FALSE]

UtilSpec == UtilInit /\ [][UtilNext]_vars

(* ------------------------------------------------------------------ *)
(* Properties                                                           *)
(* ------------------------------------------------------------------ *)

\* The last data event, as the server saw it.
LastFrame == MsgParseMessage(lastData, hsm.header)

LastRequest == ParseRequest(hsm, lastData)

Written == lastOutcome = "written"

RespCode == Get(lastFields, "Response Code")

ErrCode == Get(lastFields, "Error Code")

\* The bytes of a key field (a leading U dropped) decrypt under the LMK to
\* a key with a byte of even parity, and the parity check is not skipped.
FailsParity(key) ==
  /\ ~hsm.skipParityCheck
  /\ \E i \in 1..Len(StripU(key)) :
        BitXor(decrypt3DES(hsm.lmk, StripU(key))[i], 0) # 1

\* The buffer is not one frame for the configured header: its length
\* prefix is wrong, its header differs, or it is too short for header and
\* command code.
FrameBad(data, hdr) ==
  \/ Len(data) < 2
  \/ 256 * data[1] + data[2] # Len(data) - 2
  \/ Len(data) < 2 + Len(hdr) + 2
  \/ SubSeq(data, 3, 2 + Len(hdr)) # hdr

\* C1: a buffer with a wrong length prefix, a wrong header or too few
\* bytes for header and command code is rejected: nothing is written for
\* it and socket.end() has been called.
C1_BadFrameRejected ==
  (messageCount > 0 /\ FrameBad(lastData, hsm.header))
    => /\ lastOutcome = "rejected"
       /\ lastWrite = <<>>
       /\ ended
       /\ \A i \in 1..Len(writeLog) : writeLog[i] # messageCount

C1_Witness ==
  /\ lastOutcome = "rejected"
  /\ Len(lastData) >= 2
  /\ 256 * lastData[1] + lastData[2] = Len(lastData) - 2
  /\ Len(lastData) >= 2 + Len(hsm.header) + 2
  /\ SubSeq(lastData, 3, 2 + Len(hsm.header)) # hsm.header
  /\ ended

\* C2 (as claimed): every request that passes frame and grammar parsing is
\* answered with a response frame, and no failure inside a handler
\* terminates the process.
C2_ParsedRequestAnswered ==
  (messageCount > 0 /\ LastRequest.kind = "msg") => (Written /\ ~crashed)

\* The response codes of the command table.
ResponseCodeTable ==
  [c \in CoreCodes |->
     CASE c = Str2("N", "C") -> Str2("N", "D")
       [] c = Str2("A", "0") -> Str2("A", "1")
       [] c = Str2("B", "U") -> Str2("B", "V")
       [] c = Str2("C", "A") -> Str2("C", "B")
       [] c = Str2("C", "W") -> Str2("C", "X")
       [] c = Str2("C", "Y") -> Str2("C", "Z")
       [] c = Str2("D", "C") -> Str2("D", "D")
       [] c = Str2("E", "C") -> Str2("E", "D")
       [] c = Str2("F", "A") -> Str2("F", "B")
       [] c = Str2("H", "C") -> Str2("H", "D")]

\* C3 (as claimed): the response to a request of the command table carries
\* the response code the table lists for it, whatever the error code.
C3_ResponseCodeOfTable ==
  (Written /\ LastRequest.code \in CoreCodes)
    => RespCode = ResponseCodeTable[LastRequest.code]

\* C4 (as claimed): a well-framed request with a command code the
\* simulator does not support is answered ZZ, error 00, no further field.
C4_UnknownCommandAnswered ==
  (messageCount > 0 /\ LastFrame.ok
     /\ LastFrame.commandCode \notin CoreCodes \cup {Str2("A", "6"), Str2("K", "T")})
    => /\ Written
       /\ lastFields = <<[name |-> "Response Code", value |-> Str2("Z", "Z")],
                         [name |-> "Error Code", value |-> Str2("0", "0")]>>

\* C5: responses are written in the order of their requests; none is
\* written for a request not yet received, no request is answered twice,
\* and what the last data event wrote is the reply to its own request.
C5_ResponsesInRequestOrder ==
  /\ \A i \in 1..Len(writeLog) : writeLog[i] >= 1 /\ writeLog[i] <= messageCount
  /\ \A i \in 1..Len(writeLog) : \A j \in 1..Len(writeLog) :
        i < j => writeLog[i] < writeLog[j]
  /\ Written <=> (writeLog # <<>> /\ writeLog[Len(writeLog)] = messageCount)
  /\ Written =>
       /\ LastFrame.ok
       /\ lastWrite = Build(hsm.header,
                            getResponse(hsm, LastRequest, lastRandom).fields)
  /\ ~Written => lastWrite = <<>>

C5_Witness == writeLog = <<1, 2>> /\ messageCount = 2

\* The last data event was a DC or EC request and was answered.
PinAnswered ==
  /\ Written
  /\ LastRequest.code \in {Str2("D", "C"), Str2("E", "C")}

TerminalKeyName == IF LastRequest.code = Str2("D", "C") THEN "TPK" ELSE "ZPK"

TerminalCheckFails ==
  \/ ~Has(LastRequest.fields, TerminalKeyName)
  \/ FailsParity(Get(LastRequest.fields, TerminalKeyName))

PvkCheckFails == FailsParity(Get(LastRequest.fields, "PVK Pair"))

PvkLengthCheckFails == Len(Get(LastRequest.fields, "PVK Pair")) # 32

CyParityFailure ==
  /\ LastRequest.code = Str2("C", "Y")
  /\ FailsParity(Get(LastRequest.fields, "CVK"))

\* C7: with approve_all set every response carries error code 00, except
\* that of a CY whose CVK fails the parity check, which carries 10.
C7_ApproveAllOverrides ==
  (Written /\ hsm.approveAll)
    => IF CyParityFailure THEN ErrCode = Str2("1", "0")
       ELSE ErrCode = Str2("0", "0")

C7_Witness ==
  /\ Written /\ hsm.approveAll /\ PinAnswered
  /\ ~TerminalCheckFails /\ ~PvkCheckFails /\ PvkLengthCheckFails
  /\ ErrCode = Str2("0", "0")

\* The key field the terminal-key parity check of the last request reads.
ParityKeyName ==
  IF LastRequest.code \in {Str2("C", "W"), Str2("C", "Y")} THEN "CVK"
  ELSE TerminalKeyName

C9_Error27IffNotDoubleLength ==
  (PinAnswered /\ ~hsm.approveAll /\ ~TerminalCheckFails /\ ~PvkCheckFails)
    => (ErrCode = Str2("2", "7")
          <=> Len(StripU(Get(LastRequest.fields, "PVK Pair"))) # 32)

\* What the same buffer gets from an HSM that differs in approve_all only.
Twin == Handle([hsm EXCEPT !.approveAll = ~hsm.approveAll], lastData, lastRandom)

\* C10: flipping approve_all changes neither whether a request is
\* answered, nor the response code, nor the result fields (names, order,
\* bytes); only the error code can differ.
C10_ApproveAllChangesErrorCodeOnly ==
  messageCount > 0
    => /\ Twin.outcome = lastOutcome
       /\ Len(Twin.fields) = Len(lastFields)
       /\ \A i \in 1..Len(lastFields) :
             /\ Twin.fields[i].name = lastFields[i].name
             /\ lastFields[i].name # "Error Code"
                  => Twin.fields[i].value = lastFields[i].value

C10_Witness ==
  /\ Written
  /\ LastRequest.code = Str2("C", "W")
  /\ Get(Twin.fields, "Error Code") # ErrCode

\* The terminal key of the last DC/EC request as 16 key bytes: the U tag
\* dropped, the 32 hex characters decoded, the result decrypted under the LMK.
DecodedTerminalKey ==
  decrypt3DES(hsm.lmk, FromHex(StripU(Get(LastRequest.fields, TerminalKeyName))))

\* The PIN block of the last DC/EC request, its 16 hex characters decoded
\* and decrypted under DecodedTerminalKey, read by getClearPin.
DecodedPin ==
  LET pinBlock == FromHex(Get(LastRequest.fields, "PIN block"))
  IN IF CipherThrows(DecodedTerminalKey, pinBlock) \/ pinBlock = <<>>
     THEN [ok |-> FALSE, pin |-> <<>>]
     ELSE getClearPin(decrypt3DES(DecodedTerminalKey, pinBlock))

\* The PVV getVisaPVV computes for the last DC/EC request and that PIN.
ComputedPvv ==
  getVisaPVV(Get(LastRequest.fields, "Account Number"), Get(LastRequest.fields, "PVKI"),
             SubSeq(DecodedPin.pin, 1, Min(4, Len(DecodedPin.pin))),
             Get(LastRequest.fields, "PVK Pair"))

\* C11 (as claimed): a DC or EC request (account number given, approve_all
\* off) that passes both parity checks and the length check and whose PIN
\* block decrypts to a valid clear PIN block is answered 00 exactly when its
\* PVV field equals the computed PVV, and 01 otherwise.
C11_PvvComparisonDecides ==
  (PinAnswered /\ ~hsm.approveAll
     /\ ~TerminalCheckFails /\ ~PvkCheckFails /\ ~PvkLengthCheckFails
     /\ Has(LastRequest.fields, "Account Number") /\ DecodedPin.ok)
    => /\ ErrCode \in {Str2("0", "0"), Str2("0", "1")}
       /\ ErrCode = Str2("0", "0") <=> Get(LastRequest.fields, "PVV") = ComputedPvv

\* C12 (as claimed): for a fixed account number, PVK pair and PVKI (PIN),
\* the 8-byte block getVisaPVV encrypts differs for two PINs that differ in
\* their first four digits, and for two different PVKI values.
C12_PvvBlockDependsOnPinAndPvki ==
  calc.op = "getVisaPVV"
    => LET accountNumber == calc.args[1]
           pvki == calc.args[2]
           pin == calc.args[3]
           block == PVVBlock(accountNumber, pvki, pin)
       IN /\ \A pin2 \in Pins :
                SubSeq(pin2, 1, 4) # SubSeq(pin, 1, 4)
                  => PVVBlock(accountNumber, pvki, pin2) # block
          /\ \A pvki2 \in Pvkis :
                pvki2 # pvki => PVVBlock(accountNumber, pvki2, pin) # block

\* C13 (as claimed): for a fixed account number and CVK, the 8-byte block
\* getVisaCVV encrypts differs for two different expiry dates and for two
\* different service codes.
C13_CvvBlockDependsOnExpiryAndService ==
  calc.op = "getVisaCVV"
    => LET accountNumber == calc.args[1]
           expiryDate == calc.args[2]
           serviceCode == calc.args[3]
           block == CVVBlock(accountNumber, expiryDate, serviceCode)
       IN /\ \A expiry2 \in ExpiryDates :
                expiry2 # expiryDate => CVVBlock(accountNumber, expiry2, serviceCode) # block
          /\ \A service2 \in ServiceCodes :
                service2 # serviceCode => CVVBlock(accountNumber, expiryDate, service2) # block

\* The number of bytes the values of the first n fields take.
RECURSIVE FieldBytes(_, _)
FieldBytes(fields, n) ==
  IF n = 0 THEN 0 ELSE FieldBytes(fields, n - 1) + Len(fields[n].value)

\* C14: every response frame written starts with a 2-byte big-endian
\* length equal to the number of bytes after it: header, response code,
\* error code and result fields; the prefix does not count itself.
C14_LengthPrefixCountsWhatFollows ==
  Written
    => /\ Len(lastWrite) >= 2
       /\ 256 * lastWrite[1] + lastWrite[2] = Len(lastWrite) - 2
       /\ Len(lastWrite) - 2 = Len(hsm.header) + FieldBytes(lastFields, Len(lastFields))

C14_Witness ==
  /\ Written
  /\ hsm.header # <<>>
  /\ Len(lastFields) > 2
  /\ lastWrite[1] = 0
  /\ lastWrite[2] = Len(lastWrite) - 2

\* C15: after the length prefix a response frame holds the configured
\* header, the 2-byte response code, the 2-byte error code and then the
\* result fields in the order the handler set them, nothing in between.
C15_ResponseLayout ==
  Written
    => /\ Len(lastFields) >= 2
       /\ lastFields[1].name = "Response Code" /\ Len(lastFields[1].value) = 2
       /\ lastFields[2].name = "Error Code" /\ Len(lastFields[2].value) = 2
       /\ Len(lastWrite) = 2 + Len(hsm.header) + FieldBytes(lastFields, Len(lastFields))
       /\ SubSeq(lastWrite, 3, 2 + Len(hsm.header)) = hsm.header
       /\ \A i \in 1..Len(lastFields) :
             LET start == 2 + Len(hsm.header) + FieldBytes(lastFields, i - 1)
             IN SubSeq(lastWrite, start + 1, start + Len(lastFields[i].value))
                  = lastFields[i].value

C15_Witness ==
  /\ Written
  /\ hsm.header # <<>>
  /\ Len(lastFields) = 4
  /\ lastFields[3].name = "LMK Check Value"
  /\ lastFields[4].name = "Firmware Version"
  /\ SubSeq(lastWrite, Len(lastWrite) - 8, Len(lastWrite)) = firmwareVersion

\* C16 (as claimed): for every byte string x, checkKeyParity accepts
\* modifyKeyParity(x): every byte of the result has an odd number of set
\* bits.
C16_ModifiedKeyPassesParityCheck ==
  calc.op = "modifyKeyParity" => CryptoCheckKeyParity(calc.out)

\* C17: the constructor succeeds only for an LMK of exactly 16 bytes;
\* otherwise it throws and nothing is ever served: in every state with a
\* connection or a handled request the LMK is 16 bytes long.
C17_ServedOnlyWithLmkOf16Bytes ==
  /\ Len(hsm.lmk) # 16 => conn = "failed"
  /\ conn = "failed" => (messageCount = 0 /\ writeLog = <<>> /\ lastOutcome = "none")
  /\ (conn \in {"open", "closed"} \/ messageCount > 0) => Len(hsm.lmk) = 16

C17_Witness ==
  /\ conn = "failed"
  /\ Len(hsm.lmk) = 8
  /\ messageCount = 0

\* C18 (as claimed): an NC request with any payload is answered ND, error
\* 00, a 16-byte LMK Check Value and the 9 bytes 0007-E000: 29 bytes after
\* the header, so 35 bytes with length prefix 33 under header SSSS.
C18_DiagnosticsResponse ==
  (Written /\ LastRequest.code = Str2("N", "C"))
    => /\ RespCode = Str2("N", "D")
       /\ ErrCode = Str2("0", "0")
       /\ Len(lastFields) = 4
       /\ Len(Get(lastFields, "LMK Check Value")) = 16
       /\ Get(lastFields, "Firmware Version") = firmwareVersion
       /\ Len(lastWrite) = 2 + Len(hsm.header) + 29
       /\ Len(hsm.header) = 4 => (Len(lastWrite) = 35 /\ lastWrite[2] = 33)

\* C19 (as claimed): an A0 request without ZMK/TMK is answered A1, error
\* 00, and a 33-byte Key under LMK: U followed by the 32 hex characters of
\* the 16-byte ciphertext of the new key under the LMK.
C19_KeyUnderLmkIsHexEnvelope ==
  (Written /\ LastRequest.code = Str2("A", "0") /\ ~Has(LastRequest.fields, "ZMK/TMK"))
    => /\ RespCode = Str2("A", "1")
       /\ ErrCode = Str2("0", "0")
       /\ Len(lastFields) = 3
       /\ Len(Get(lastFields, "Key under LMK")) = 33
       /\ Get(lastFields, "Key under LMK")[1] = 85
       /\ FromHex(Tail(Get(lastFields, "Key under LMK")))
            = encrypt3DES(hsm.lmk, generateRandomKey(lastRandom))

\* A key envelope: 32 hex characters, with or without a leading U.
IsKeyEnvelope(field) ==
  /\ Len(StripU(field)) = 32
  /\ \A i \in 1..32 : HexVal(StripU(field)[i]) >= 0

\* The key fields the handlers of BU, CW, CY, DC and EC turn into key bytes.
KeyFieldNames == {"Key", "CVK", "TPK", "ZPK", "PVK Pair"}

\* C20 (as claimed): where a handler turns a key envelope into key bytes,
\* it drops a leading U, decodes the 32 hex characters into 16 bytes and
\* hands these 16 bytes to the cipher; so BU answers a key envelope with
\* the check value of the decoded key.
C20_KeyEnvelopeDecodedTo16Bytes ==
  (messageCount > 0 /\ LastRequest.kind = "msg"
     /\ LastRequest.code \in {Str2("B", "U"), Str2("C", "W"), Str2("C", "Y"),
                              Str2("D", "C"), Str2("E", "C")})
    => /\ \A name \in KeyFieldNames :
             (Has(LastRequest.fields, name) /\ IsKeyEnvelope(Get(LastRequest.fields, name)))
               => /\ Len(KeyBytes(Get(LastRequest.fields, name))) = 16
                  /\ KeyBytes(Get(LastRequest.fields, name))
                       = FromHex(StripU(Get(LastRequest.fields, name)))
       /\ (LastRequest.code = Str2("B", "U") /\ Has(LastRequest.fields, "Key")
              /\ IsKeyEnvelope(Get(LastRequest.fields, "Key")))
            => /\ Written
               /\ Get(lastFields, "Key Check Value")
                    = CryptoGetKeyCheckValue(FromHex(StripU(Get(LastRequest.fields, "Key"))), 16)

\* C21 (as claimed): getKeyCheckValue(key, n) returns exactly n bytes, the
\* leading n bytes of the encryption of 8 zero bytes under key, for n in
\* 0, 1, 3, 6, 8 and 16.
C21_KcvHasRequestedLength ==
  calc.op = "getKeyCheckValue"
    => /\ Len(calc.out) = calc.args[2][1]
       /\ \A i \in 1..Len(calc.out) :
             calc.out[i] = encrypt3DES(calc.args[1], <<0, 0, 0, 0, 0, 0, 0, 0>>)[i]

\* The payload of the last request lacks the ';' its grammar expects: in CW
\* and CY after the PAN, in HC right after the current key.
DelimiterMissing ==
  LET d == LastFrame.commandData
  IN IF LastFrame.commandCode = Str2("H", "C")
     THEN At(d, IF At(d, 0) = 85 THEN 33 ELSE 16) # 59
     ELSE \A i \in 1..Len(d) : d[i] # 59

\* C22 (as claimed): a CW, CY or HC request without the expected ';' fails
\* grammar parsing: nothing is written for it and socket.end() is called.
C22_MissingDelimiterRejected ==
  (messageCount > 0 /\ LastFrame.ok
     /\ LastFrame.commandCode \in {Str2("C", "W"), Str2("C", "Y"), Str2("H", "C")}
     /\ DelimiterMissing)
    => /\ lastOutcome = "rejected"
       /\ lastWrite = <<>>
       /\ ended

\* The first key envelope of the last request is announced by its scheme
\* tag, and fewer than 33 bytes of payload remain from the tag on.
ShortEnvelope ==
  LET d == LastFrame.commandData
      code == LastFrame.commandCode
      offset == IF code = Str2("B", "U") THEN 3 ELSE IF code = Str2("A", "0") THEN 5 ELSE 0
      tagged ==
        IF code \in {Str2("C", "A"), Str2("C", "W"), Str2("C", "Y"), Str2("D", "C")}
        THEN IsUTS(At(d, offset))
        ELSE IF code = Str2("F", "A") THEN At(d, offset) \in {85, 84}
        ELSE IF code = Str2("A", "0") THEN At(d, 0) = 49 /\ At(d, offset) = 85
        ELSE At(d, offset) = 85
  IN /\ code \in CoreCodes \ {Str2("N", "C")}
     /\ tagged
     /\ Len(d) < offset + 33

\* C23 (as claimed): a request whose key envelope is announced by its tag
\* but is cut short by the end of the payload fails grammar parsing:
\* nothing is written for it and socket.end() is called.
C23_ShortEnvelopeRejected ==
  (messageCount > 0 /\ LastFrame.ok /\ ShortEnvelope)
    => /\ lastOutcome = "rejected"
       /\ lastWrite = <<>>
       /\ ended

\* The leading key field of CA, CW, CY and DC.
LeadKeyName ==
  IF LastRequest.code \in {Str2("C", "W"), Str2("C", "Y")} THEN "CVK" ELSE "TPK"

\* The field after the leading key field starts at payload offset o.
NextFieldStartsAt(o) ==
  LET d == LastFrame.commandData
      code == LastRequest.code
      f == LastRequest.fields
  IN IF code = Str2("C", "W")
     THEN Get(f, "Primary Account Number") = Sub(d, o, IndexOf(d, 59, o))
     ELSE IF code = Str2("C", "Y") THEN Get(f, "CVV") = Sub(d, o, o + 3)
     ELSE IF code = Str2("D", "C")
     THEN Get(f, "PVK Pair") = Sub(d, o, o + (IF At(d, o) = 85 THEN 33 ELSE 32))
     ELSE IF IsUTS(At(d, o)) THEN Get(f, "Destination Key") = Sub(d, o, o + 33)
     ELSE Get(f, "Maximum PIN Length") = Sub(d, o, o + 2)

\* C24 (as claimed): in CA, CW, CY and DC the leading key field is a
\* 33-byte envelope exactly when the first byte is one of U, T, S, X;
\* otherwise the field is absent and the next field starts at the same
\* offset.
C24_EnvelopeIffTagUTSX ==
  (messageCount > 0 /\ LastRequest.kind = "msg"
     /\ LastRequest.code \in {Str2("C", "A"), Str2("C", "W"), Str2("C", "Y"), Str2("D", "C")})
    => IF At(LastFrame.commandData, 0) \in {85, 84, 83, 88}
       THEN /\ Has(LastRequest.fields, LeadKeyName)
            /\ Get(LastRequest.fields, LeadKeyName) = Sub(LastFrame.commandData, 0, 33)
            /\ NextFieldStartsAt(33)
       ELSE /\ ~Has(LastRequest.fields, LeadKeyName)
            /\ NextFieldStartsAt(0)

\* The field lengths the DC/EC grammar gives the payload of the last
\* request, in order; the terminal key only when it is tagged.
PinFieldLengths ==
  LET d == LastFrame.commandData
      isDC == LastRequest.code = Str2("D", "C")
      tagged == IF isDC THEN IsUTS(At(d, 0)) ELSE At(d, 0) = 85
      k == IF tagged THEN 33 ELSE 0
      p == IF At(d, k) = 85 THEN 33 ELSE 32
      token == ~isDC /\ Sub(d, k + p + 16, k + p + 18) = Str2("0", "4")
  IN (IF tagged THEN <<33>> ELSE <<>>) \o <<p, 16, 2, IF token THEN 18 ELSE 12, 1, 4>>

\* The sum of the first n entries of a sequence of numbers.
RECURSIVE SumTo(_, _)
SumTo(lengths, n) == IF n = 0 THEN 0 ELSE SumTo(lengths, n - 1) + lengths[n]

C26_ClearPinMatchesLengthNibble ==
  (calc.op = "getClearPin" /\ ~calc.threw)
    => /\ Len(calc.out) >= 4 /\ Len(calc.out) <= 12
       /\ Len(calc.args[1]) > 0
       /\ Len(calc.out) = calc.args[1][1] \div 16
       /\ \A i \in 1..Len(calc.out) : IsDigit(calc.out[i])

NoIndexNames(fields) == \A i \in 1..Len(fields) : ArrayIndex(fields[i].name) = -1

GrammarEnd(code, d) ==
  LET uts == IF IsUTS(At(d, 0)) THEN 33 ELSE 0
      pan(o) == IF IndexOf(d, 59, o) = -1 THEN Len(d) + 1 ELSE IndexOf(d, 59, o) + 8
      k == IF code = Str2("D", "C") THEN uts ELSE IF At(d, 0) = 85 THEN 33 ELSE 0
      p == IF At(d, k) = 85 THEN 33 ELSE 32
      token == code = Str2("E", "C") /\ Sub(d, k + p + 16, k + p + 18) = Str2("0", "4")
      z == IF At(d, 0) = 85 \/ At(d, 0) = 84 THEN 33 ELSE 0
  IN CASE code = Str2("A", "0") ->
            (IF At(d, 0) # Chr["1"] THEN 5
             ELSE IF At(d, 5) = 59 THEN (IF At(d, 7) = 85 THEN 40 ELSE 8)
             ELSE IF At(d, 5) = 85 THEN 38 ELSE 6)
       [] code = Str2("B", "U") -> (IF At(d, 3) = 85 THEN 36 ELSE 4)
       [] code = Str2("C", "A") -> uts + (IF IsUTS(At(d, uts)) THEN 33 ELSE 0) + 34
       [] code = Str2("C", "W") -> pan(uts)
       [] code = Str2("C", "Y") -> pan(uts + 3)
       [] code \in {Str2("D", "C"), Str2("E", "C")} ->
            k + p + 16 + 2 + (IF token THEN 18 ELSE 12) + 1 + 4
       [] code = Str2("F", "A") -> (IF At(d, z) \in {85, 84, 88} THEN z + 33 ELSE z + 1)
       [] code = Str2("H", "C") -> (IF At(d, 0) = 85 THEN 33 ELSE 16) + 3
       [] OTHER -> 0

\* Bytes appended to a payload.
Trailers == {<<85>>, <<59>>, <<85>> \o GoodKey, Digits(3, 0)}

\* The last frame with its payload cut at the end of the grammar, and
\* with t appended after it.
Trimmed(t) ==
  LET code == LastFrame.commandCode
      d == LastFrame.commandData
  IN Frame(hsm.header, code \o SubSeq(d, 1, GrammarEnd(code, d)) \o t)

C29_NoWriteAfterEnd == [][ended => writeLog' = writeLog]_vars

\* The well-formed frames a client of this HSM sends.
WellFormed == {Frame(hsm.header, r) : r \in Requests} \cup {NestedFrame(hsm.header)}

\* The step handles the second piece of a well-formed frame whose first
\* piece was the buffer handled before.
SplitArrival ==
  /\ messageCount > 0 /\ messageCount' = messageCount + 1
  /\ \E f \in WellFormed : \E k \in 1..(Len(f) - 1) :
        lastData = SubSeq(f, 1, k) /\ lastData' = SubSeq(f, k + 1, Len(f))

\* The step handles a buffer made of two well-formed frames.
MergedArrival ==
  /\ messageCount' = messageCount + 1
  /\ \E f \in WellFormed, g \in WellFormed : lastData' = f \o g

\* C30: a frame split over two data events, or two frames in one data
\* event, fail the length check: nothing is written for any of the buffers
\* involved and the connection is ended.
C30_OneFramePerDataEvent ==
  [][/\ MergedArrival
        => (lastOutcome' = "rejected" /\ ended' /\ writeLog' = writeLog)
     /\ SplitArrival
        => (lastOutcome = "rejected" /\ ended
              /\ lastOutcome' = "rejected" /\ writeLog' = writeLog)]_vars

\* What the client of the second connection gets for its buffer when it
\* is the only client of the server.
AloneOutcome ==
  \E r \in {Handle(hsm, peer.data, <<>>)} :
      /\ (peer.outcome = "written") = (r.outcome = "written")
      /\ peer.bytes = r.bytes

\* C31: whatever is handled on the other connection, a connection's
\* request is answered, and with the same bytes, exactly as if its client
\* were the only one.
C31_ConnectionsDoNotInterfere ==
  peer.outcome # "none" => AloneOutcome

\* C32: a request that draws no random key gets the response its own
\* bytes determine under the configuration, whatever was handled on the
\* connection before it: the handler's answer to the parsed frame, built
\* with the configured header.
C32_ResponseDependsOnFrameOnly ==
  (messageCount > 0 /\ LastRequest.kind = "msg"
     /\ LastRequest.code # Str2("A", "0"))
    => \E response \in {getResponse(hsm, LastRequest, <<>>)} :
         /\ Written = (response.kind = "resp")
         /\ Written => /\ lastFields = response.fields
                        /\ lastWrite = Build(hsm.header, response.fields)

C32_Witness ==
  /\ messageCount = 2 /\ writeLog = <<1, 2>>
  /\ LastRequest.kind = "msg" /\ LastRequest.code = Str2("D", "C")
  /\ Written /\ Len(lastWrite) > 0

C34_CvvOnlyAfterParityCheck ==
  (messageCount > 0 /\ LastRequest.kind = "msg"
     /\ LastRequest.code = Str2("C", "W") /\ Has(LastRequest.fields, "CVK")
     /\ Len(Get(LastRequest.fields, "CVK")) = 33
     /\ At(Get(LastRequest.fields, "CVK"), 0) = 85)
    => /\ Written /\ RespCode = Str2("C", "X")
       /\ Has(lastFields, "CVV") <=> ~FailsParity(Get(LastRequest.fields, "CVK"))
       /\ (hsm.approveAll /\ FailsParity(Get(LastRequest.fields, "CVK")))
            => ErrCode = Str2("0", "0")

\* The leading key field of the last DC, CW or CY request.
TaggedKey ==
  Get(LastRequest.fields,
      IF LastRequest.code = Str2("D", "C") THEN "TPK" ELSE "CVK")

\* C35: with approveAll off, a DC, CW or CY request whose leading key
\* carries tag T or S is never answered with error code 00: the tag stays
\* in the 33 bytes given to the cipher, which are no whole number of
\* 8-byte blocks, so the decrypt under the LMK fails.
C35_TagTSNeverApproved ==
  (messageCount > 0 /\ LastRequest.kind = "msg" /\ ~hsm.approveAll
     /\ LastRequest.code \in {Str2("D", "C"), Str2("C", "W"), Str2("C", "Y")}
     /\ At(LastFrame.commandData, 0) \in {84, 83})
    => /\ Len(TaggedKey) = 33
       /\ KeyBytes(TaggedKey) = TaggedKey
       /\ CipherThrows(hsm.lmk, KeyBytes(TaggedKey))
       /\ ~(Written /\ ErrCode = Str2("0", "0"))

C35_Witness ==
  /\ messageCount > 0 /\ LastRequest.kind = "msg" /\ ~hsm.approveAll
  /\ LastRequest.code = Str2("D", "C")
  /\ At(LastFrame.commandData, 0) = 83
  /\ hsm.skipParityCheck
  /\ Written /\ ErrCode = Str2("0", "1")

\* C36: with approveAll off, an EC request with PIN block format code 04
\* is parsed to a Token and no Account Number and is never answered with
\* error code 00; when the key checks pass the answer is ED with error 01.
C36_TokenRequestNeverApproved ==
  (messageCount > 0 /\ LastRequest.kind = "msg" /\ ~hsm.approveAll
     /\ LastRequest.code = Str2("E", "C")
     /\ Get(LastRequest.fields, "PIN block format code") = Str2("0", "4"))
    => /\ Has(LastRequest.fields, "Token")
       /\ ~Has(LastRequest.fields, "Account Number")
       /\ ~(Written /\ ErrCode = Str2("0", "0"))
       /\ (~TerminalCheckFails /\ ~PvkCheckFails /\ ~PvkLengthCheckFails)
            => /\ Written
               /\ RespCode = Str2("E", "D") /\ ErrCode = Str2("0", "1")

C36_Witness ==
  /\ messageCount > 0 /\ LastRequest.kind = "msg" /\ ~hsm.approveAll
  /\ LastRequest.code = Str2("E", "C")
  /\ Has(LastRequest.fields, "Token")
  /\ Len(Get(LastRequest.fields, "Token")) = 18
  /\ ~TerminalCheckFails /\ ~PvkCheckFails /\ ~PvkLengthCheckFails
  /\ Written /\ RespCode = Str2("E", "D") /\ ErrCode = Str2("0", "1")

\* The request has Mode 1 and a U at the cursor behind the key scheme (and
\* behind the ';' and the flag byte, if there is a ';').
HasZmkEnvelope ==
  LET d == LastFrame.commandData
      cursor == IF At(d, 5) = 59 THEN 7 ELSE 5
  IN At(d, 0) = Chr["1"] /\ At(d, cursor) = 85

\* C37: the response to an A0 request carries Key under ZMK and a 6-byte
\* Key Check Value, in this order after Key under LMK, exactly when the
\* request has Mode 1 and a U-prefixed ZMK/TMK envelope; otherwise Key
\* under LMK is its only result field.
C37_ZmkFieldsIffEnvelope ==
  (messageCount > 0 /\ LastRequest.kind = "msg"
     /\ LastRequest.code = Str2("A", "0"))
    => /\ Written
       /\ Len(lastFields) = (IF HasZmkEnvelope THEN 5 ELSE 3)
       /\ lastFields[3].name = "Key under LMK"
       /\ HasZmkEnvelope
            => /\ lastFields[4].name = "Key under ZMK"
               /\ lastFields[5].name = "Key Check Value"
               /\ Len(lastFields[5].value) = 6

\* C38: no step of the server, whether a request is answered, fails or is
\* rejected, changes the LMK, the header or the two policy flags: they
\* keep the values the constructor gave them.
C38_ConfigurationNeverChanges ==
  [][/\ hsm'.lmk = hsm.lmk
     /\ hsm'.header = hsm.header
     /\ hsm'.skipParityCheck = hsm.skipParityCheck
     /\ hsm'.approveAll = hsm.approveAll]_vars

C38_Witness ==
  /\ messageCount = 2
  /\ writeLog = <<1>>
  /\ lastOutcome = "rejected" /\ ended
  /\ ~hsm.approveAll /\ Len(hsm.header) = 4

====
